---- MODULE Spec2Model ----
(***************************************************************************)
(* Model of windowsdnsserver: PowerShellCommand / PowerShellRunner         *)
(* (command_runner/powershell_runner.py) and DnsServerModule               *)
(* (dns/dnsserver.py), together with the child process and the DNS tool    *)
(* the runner talks to.                                                    *)
(*                                                                         *)
(* Strings that the code formats or concatenates are sequences of atoms    *)
(* (an atom is an indivisible run of characters), so '-%s %s' % (a, v) is  *)
(* a real concatenation and the tool's parsing of a token is a real        *)
(* split.  A Python list is a sequence; a Python dict is a sequence of     *)
(* <<key, value>> pairs with distinct keys, in insertion order.            *)
(***************************************************************************)
EXTENDS Integers, Sequences, FiniteSets, TLC

VARIABLES
    pc,        \* position of the (single) Python thread
    runner,    \* the PowerShellRunner object, or None
    dns,       \* the DnsServerModule object, or None
    ctor,      \* history: the arguments DnsServerModule was constructed with
    op,        \* the facade operation in progress and its arguments
    command,   \* the PowerShellCommand object of the operation, or None
    command0,  \* history: the command as it was constructed
    cmd,       \* PowerShellRunner.run's local list cmd
    built,     \* history: what command.build() returned inside PowerShellRunner.run
    proc,      \* the child process (subprocess.Popen object and the OS process)
    timedOut,  \* history: proc.communicate(timeout=60) raised
    captured,  \* PowerShellRunner.run's locals out, err (bytes)
    result,    \* the Result returned by PowerShellRunner.run, or None
    errLog,    \* what DnsServerModule.run rendered into its error log, or None
    ret,       \* value returned by the facade operation
    exc,       \* exception that left the call, "none" if none
    store,     \* the DNS server's records (indices into AllRecs)
    added      \* history: the A records add_a_record reported added and
               \* remove_a_record has not reported removed since

vars == <<pc, runner, dns, ctor, op, command, command0, cmd, built, proc, timedOut,
          captured, result, errLog, ret, exc, store, added>>

----------------------------------------------------------------------------
(* Bounds of the model *)

MaxFlags == 2      \* flags of a caller-built PowerShellCommand
MaxArgs == 2       \* named arguments of a caller-built PowerShellCommand

(* Values *)

None == <<"None">>             \* Python None
S(a) == <<a>>                   \* a string made of one atom
Quote(s) == <<"\"">> \o s \o <<"\"">>

DEFAULT_POWER_SHELL_EXE_PATH == S("C:\\Windows\\syswow64\\WindowsPowerShell\\v1.0\\powershell.exe")
CustomPath == S("D:\\pwsh.exe")

Zones == {S("myzone.com")}
Names == {S("www")}
Ips == {S("100.100.100.100"), S("10.0.0.99")}
Hosts == {S("host1.myzone.com")}
Texts == {S("txt1")}
Servers == {S("dc1")}
Ttls == {S("1h"), S("bogus")}

----------------------------------------------------------------------------
(* PowerShellCommand *)

\* PowerShellCommand.__init__(cmdlet, *flags, to_json_convert=False, **args)
PowerShellCommand(c, fs, json, as) ==
    [cmdlet |-> c, flags |-> fs, args |-> as, to_json_convert |-> json]

FlagToken(flag) == <<"-">> \o flag                               \* '-%s' % flag
ArgToken(arg, value) == <<"-">> \o arg \o <<" ">> \o value       \* '-%s %s' % (arg, value)

FlagTokens(flags) == [i \in 1..Len(flags) |-> FlagToken(flags[i])]
ArgTokens(args) == [i \in 1..Len(args) |-> ArgToken(args[i][1], args[i][2])]
JsonTokens(to_json_convert) ==
    IF to_json_convert THEN << S("|"), S("ConvertTo-Json") >> ELSE << >>

\* a build() that appends the named arguments before the flags
buildArgsFirst(self) ==
    <<self.cmdlet>> \o ArgTokens(self.args) \o FlagTokens(self.flags)
        \o JsonTokens(self.to_json_convert)

\* PowerShellCommand.build
build(self) ==
    <<self.cmdlet>> \o FlagTokens(self.flags) \o ArgTokens(self.args)
        \o JsonTokens(self.to_json_convert)

(* Python dict helpers *)

Keys(d) == [i \in 1..Len(d) |-> d[i][1]]
HasKey(d, k) == \E i \in 1..Len(d) : d[i][1] = k
Get(d, k) == d[CHOOSE i \in 1..Len(d) : d[i][1] = k][2]
\* d[k] = v
SetItem(d, k, v) ==
    IF HasKey(d, k)
    THEN [i \in 1..Len(d) |-> IF d[i][1] = k THEN <<k, v>> ELSE d[i]]
    ELSE Append(d, <<k, v>>)
\* d[k] = v when cond (the code's "if x: args[k] = x")
SetIf(d, cond, k, v) == IF cond THEN SetItem(d, k, v) ELSE d

----------------------------------------------------------------------------
(* Code of the repository that the facade calls and that is not under src/ *)

\* RecordType enumeration (dns/record.py): member -> the tool's record-type token
RecordTypes == {"A", "CNAME", "TXT"}
RecordTypeValue(record_type) ==
    CASE record_type = "A" -> S("A")
      [] record_type = "CNAME" -> S("CNAME")
      [] record_type = "TXT" -> S("Txt")

\* dns_server_utils.format_ttl: a duration with a unit suffix -> the tool's duration;
\* anything else fails fast
TtlValid(ttl) == ttl \in {S("1h"), S("30m")}
format_ttl(ttl) ==
    CASE ttl = S("1h") -> S("01:00:00")
      [] ttl = S("30m") -> S("00:30:00")
      [] OTHER -> S("ValueError")

\* logger.create_logger(name)
create_logger(name) == S(name)

----------------------------------------------------------------------------
(* DnsServerModule: the command each operation constructs *)

Truthy(x) == x # None /\ x # << >>        \* Python truthiness of an optional string

\* get_dns_records, lines 39-51
GetDnsRecordsCommand(self, zone, name, record_type) ==
    LET a0 == << <<S("ZoneName"), zone>> >>
        a1 == SetIf(a0, Truthy(self.server), S("Computer"), self.server)
        a2 == SetIf(a1, Truthy(name), S("Name"), name)
        a3 == IF record_type # "None"
              THEN SetItem(a2, S("RRType"), RecordTypeValue(record_type)) ELSE a2
    IN PowerShellCommand(S("Get-DnsServerResourceRecord"), << >>, TRUE, a3)

\* add_a_record, lines 61-78: the dict is unpacked with a single star, so its
\* KEYS become positional flags and no named argument is passed
AddARecordCommand(self, zone, name, ip, ttl) ==
    LET a0 == << <<S("ZoneName"), zone>>, <<S("Name"), name>>, <<S("IPv4Address"), ip>> >>
        a1 == SetIf(a0, Truthy(self.server), S("Computer"), self.server)
        a2 == SetIf(a1, Truthy(ttl), S("TimeToLive"), format_ttl(ttl))
    IN PowerShellCommand(S("Add-DnsServerResourceRecordA"),
                         <<S("AllowUpdateAny")>> \o Keys(a2), FALSE, << >>)

\* remove_a_record / remove_cname_record, lines 86-98 and 132-144
RemoveRecordCommand(self, zone, name, rrtype) ==
    LET a0 == << <<S("ZoneName"), zone>>, <<S("RRType"), rrtype>> >>
        a1 == SetIf(a0, Truthy(self.server), S("Computer"), self.server)
        a2 == SetIf(a1, Truthy(name), S("Name"), name)
    IN PowerShellCommand(S("Remove-DnsServerResourceRecord"), <<S("Force")>>, FALSE, a2)

\* add_cname_record, lines 105-121
AddCnameRecordCommand(self, zone, alias_name, server_name, ttl) ==
    LET a0 == << <<S("ZoneName"), zone>>, <<S("Name"), alias_name>>,
                 <<S("HostNameAlias"), Quote(server_name)>> >>
        a1 == SetIf(a0, Truthy(self.server), S("Computer"), self.server)
        a2 == SetIf(a1, Truthy(ttl), S("TimeToLive"), format_ttl(ttl))
    IN PowerShellCommand(S("Add-DnsServerResourceRecordCName"), << >>, FALSE, a2)

\* add_txt_record, lines 154-163: self.server is not consulted
AddTxtRecordCommand(self, zone, name, content, ttl) ==
    PowerShellCommand(S("Add-DnsServerResourceRecord"),
                      <<S("AllowUpdateAny"), S("Txt")>>, FALSE,
                      << <<S("ZoneName"), zone>>, <<S("Name"), name>>,
                         <<S("DescriptiveText"), content>>,
                         <<S("TimeToLive"), format_ttl(ttl)>> >>)

\* remove_txt_record, lines 172-187
RemoveTxtRecordCommand(self, zone, name, record_data) ==
    LET a0 == << <<S("ZoneName"), zone>>, <<S("RRType"), S("Txt")>> >>
        a1 == SetIf(a0, Truthy(self.server), S("Computer"), self.server)
        a2 == SetIf(a1, Truthy(name), S("Name"), name)
        a3 == SetIf(a2, Truthy(record_data), S("RecordData"), Quote(record_data))
    IN PowerShellCommand(S("Remove-DnsServerResourceRecord"), <<S("Force")>>, FALSE, a3)

\* is_dns_server_module_installed, line 195
ModuleInstalledCommand ==
    PowerShellCommand(S("Get-Module DNSServer"), <<S("ListAvailable")>>, FALSE, << >>)

\* does the operation evaluate format_ttl on a malformed ttl while it builds its command?
TtlFaults(fn, ttl) ==
    /\ fn \in {"add_a_record", "add_cname_record", "add_txt_record"}
    /\ Truthy(ttl)
    /\ ~TtlValid(ttl)

----------------------------------------------------------------------------
(* The DNS tool behind the interpreter: what the launched process does with *)
(* the command line it is given.  Environment of the program.              *)

\* the records the DNS server can hold
AllRecs == <<
    [zone |-> S("myzone.com"), name |-> S("www"), type |-> "A", value |-> S("100.100.100.100")],
    [zone |-> S("myzone.com"), name |-> S("www"), type |-> "A", value |-> S("10.0.0.99")],
    [zone |-> S("myzone.com"), name |-> S("www"), type |-> "CNAME", value |-> S("host1.myzone.com")],
    [zone |-> S("myzone.com"), name |-> S("www"), type |-> "TXT", value |-> S("txt1")],
    [zone |-> S("myzone.com"), name |-> S("mail"), type |-> "MX", value |-> S("mx1.myzone.com")] >>
RecIds == 1..Len(AllRecs)
InitStores == { {}, {1, 5} }

\* splitting a token of the command line
IsParam(tok) == Len(tok) >= 2 /\ tok[1] = "-"
Spaces(tok) == {i \in 1..Len(tok) : tok[i] = " "}
IsNamed(tok) == IsParam(tok) /\ Spaces(tok) # {}
FirstSpace(tok) == CHOOSE i \in Spaces(tok) : \A j \in Spaces(tok) : i <= j
ParamName(tok) ==
    IF IsNamed(tok) THEN SubSeq(tok, 2, FirstSpace(tok) - 1) ELSE Tail(tok)
ParamValue(tok) == SubSeq(tok, FirstSpace(tok) + 1, Len(tok))
Unquote(v) ==
    IF Len(v) >= 2 /\ v[1] = "\"" /\ v[Len(v)] = "\"" THEN SubSeq(v, 2, Len(v) - 1) ELSE v

Switches(tokens) ==
    {ParamName(tokens[i]) : i \in {j \in 2..Len(tokens) : IsParam(tokens[j]) /\ ~IsNamed(tokens[j])}}
NamedNames(tokens) ==
    {ParamName(tokens[i]) : i \in {j \in 2..Len(tokens) : IsNamed(tokens[j])}}
NamedValue(tokens, name) ==
    LET is == {j \in 2..Len(tokens) : IsNamed(tokens[j]) /\ ParamName(tokens[j]) = name}
    IN IF is = {} THEN None ELSE Unquote(ParamValue(tokens[CHOOSE j \in is : TRUE]))
PipesToJson(tokens) ==
    \E i \in 1..(Len(tokens) - 1) : tokens[i] = S("|") /\ tokens[i + 1] = S("ConvertTo-Json")

\* parameter binding: every switch and every named parameter is one the cmdlet has
\* (a value parameter given without a value does not bind), the mandatory ones are there
Binds(tokens, switches, valued, mandatory) ==
    /\ Switches(tokens) \subseteq switches
    /\ NamedNames(tokens) \subseteq valued
    /\ mandatory \subseteq NamedNames(tokens)

ToolType(v) ==
    CASE v = S("A") -> "A"
      [] v = S("CNAME") -> "CNAME"
      [] v \in {S("Txt"), S("TXT")} -> "TXT"
      [] OTHER -> "?"

BadByte == S("\\xff")                 \* a byte the default encoding cannot decode
ReplacementChar == S("\\ufffd")
ErrBytes == << S("Failed"), BadByte >>

Outcome(st, o, e, c, f) ==
    [store |-> st, out |-> o, err |-> e, code |-> c, fault |-> f]
Done(st, out) == Outcome(st, out, << >>, 0, "none")
\* the cmdlet rejects the command line (a parameter does not bind, no such record)
CmdletFails(st) == Outcome(st, << >>, ErrBytes, 1, "cmdlet")
\* the cmdlet cannot do its work (server unreachable, access denied)
ServerFails(st) == Outcome(st, << >>, ErrBytes, 1, "server")

\* one row of ConvertTo-Json output
Row(r) == <<"{", r.type>> \o r.name \o <<",">> \o r.value \o <<"}">>
SortedIds(ids) == SelectSeq([i \in RecIds |-> i], LAMBDA i : i \in ids)
Rows(ids) == [k \in 1..Cardinality(ids) |-> Row(AllRecs[SortedIds(ids)[k]])]
\* ConvertTo-Json: nothing for no object, a bare object for one, an array for more
JsonDocs(ids) ==
    CASE Cardinality(ids) = 0 -> { << >>, << S("["), S("]") >> }
      [] Cardinality(ids) = 1 -> { Rows(ids) }
      [] OTHER -> { <<S("[")>> \o Rows(ids) \o <<S("]")>> }

Matching(st, zone, name, type, value) ==
    {i \in st : /\ AllRecs[i].zone = zone
                /\ name # None => AllRecs[i].name = name
                /\ type # "?" => AllRecs[i].type = type
                /\ value # None => AllRecs[i].value = value}
IdsOf(zone, name, type, value) == Matching(RecIds, zone, name, type, value)

ValueParams == {S("ZoneName"), S("Name"), S("Computer"), S("TimeToLive")}

AddOutcomes(tokens, st, switches, valueArg, mandatorySwitches, type) ==
    LET ids == IdsOf(NamedValue(tokens, S("ZoneName")), NamedValue(tokens, S("Name")),
                     type, NamedValue(tokens, valueArg))
    IN IF /\ Binds(tokens, switches, ValueParams \cup {valueArg},
                   {S("ZoneName"), S("Name"), valueArg})
          /\ mandatorySwitches \subseteq Switches(tokens)
          /\ ids # {}
          /\ (ids \subseteq st => S("AllowUpdateAny") \in Switches(tokens))
       THEN { Done(st \cup ids, << >>) }
       ELSE { CmdletFails(st) }

RemoveOutcomes(tokens, st) ==
    LET ids == Matching(st, NamedValue(tokens, S("ZoneName")), NamedValue(tokens, S("Name")),
                        ToolType(NamedValue(tokens, S("RRType"))),
                        NamedValue(tokens, S("RecordData")))
    IN IF /\ Binds(tokens, {S("Force")}, ValueParams \cup {S("RRType"), S("RecordData")},
                   {S("ZoneName"), S("RRType")})
          /\ ids # {}
       THEN { Done(st \ ids, << >>) }
       ELSE { CmdletFails(st) }

GetOutcomes(tokens, st) ==
    LET ids == Matching(st, NamedValue(tokens, S("ZoneName")), NamedValue(tokens, S("Name")),
                        IF NamedValue(tokens, S("RRType")) = None THEN "?"
                        ELSE ToolType(NamedValue(tokens, S("RRType"))), None)
    IN IF Binds(tokens, {}, ValueParams \cup {S("RRType")}, {S("ZoneName")})
       THEN IF PipesToJson(tokens)
            THEN { Done(st, doc) : doc \in JsonDocs(ids) }
            ELSE { Done(st, <<S("table")>>) }
       ELSE { CmdletFails(st) }

\* what the process may do with the command line
ToolOutcomes(tokens, st) ==
    LET c == tokens[1]
    IN {ServerFails(st)} \cup
       (CASE c = S("Add-DnsServerResourceRecordA") ->
               AddOutcomes(tokens, st, {S("AllowUpdateAny")}, S("IPv4Address"), {}, "A")
          [] c = S("Add-DnsServerResourceRecordCName") ->
               AddOutcomes(tokens, st, {S("AllowUpdateAny")}, S("HostNameAlias"), {}, "CNAME")
          [] c = S("Add-DnsServerResourceRecord") ->
               AddOutcomes(tokens, st, {S("AllowUpdateAny"), S("Txt")}, S("DescriptiveText"),
                           {S("Txt")}, "TXT")
          [] c = S("Remove-DnsServerResourceRecord") -> RemoveOutcomes(tokens, st)
          [] c = S("Get-DnsServerResourceRecord") -> GetOutcomes(tokens, st)
          [] c = S("Get-Module DNSServer") ->
               { Done(st, << >>), Done(st, <<S("DnsServer")>>) }
          [] OTHER -> { Done(st, << >>) })

----------------------------------------------------------------------------
(* Objects *)

Null == [kind |-> "none"]                      \* no object
NoList == << None >>                            \* no list
NoProc == [state |-> "none", returncode |-> None, out |-> << >>, err |-> << >>,
           fault |-> "none", killed |-> FALSE]
NoCaptured == [out |-> << >>, err |-> << >>]
NoOp == [fn |-> "none", zone |-> None, name |-> None, value |-> None,
         ttl |-> None, rtype |-> "None"]
Call(f, z, n, v, t, rt) ==
    [fn |-> f, zone |-> z, name |-> n, value |-> v, ttl |-> t, rtype |-> rt]

\* the module object bound to the name "logger" in both source files (never None)
LoggerModule == S("module windowsdnsserver.util.logger")
GivenLogger == S("logger given by the caller")

\* Python's binding of keyword arguments to a signature without **kwargs
KeywordsBind(params, keywords) == keywords \subseteq params

\* PowerShellRunner.__init__(power_shell_path=None, logger_service=None), lines 41-49:
\* the test on line 42 reads the module "logger", not the parameter
PowerShellRunnerParams == {"power_shell_path", "logger_service"}
PowerShellRunnerInit(path, logger_service) ==
    [kind |-> "PowerShellRunner",
     logger |-> IF LoggerModule = None THEN create_logger("PowerShellRunner")
                ELSE logger_service,
     power_shell_path |-> IF path = None THEN DEFAULT_POWER_SHELL_EXE_PATH ELSE path]

\* DnsServerModule.__init__, lines 25-30
DnsServerModuleInit(logger_service, srv) ==
    [kind |-> "DnsServerModule",
     server |-> srv,
     logger |-> IF logger_service = None THEN create_logger("DnsServer") ELSE logger_service]
\* line 34: the keywords of the call PowerShellRunner(logger=logger)
DefaultRunnerKeywords == {"logger"}

\* a run that leaves the interpreter path in the command's own flags, as it
\* would had build() handed out the command's list instead of a fresh one
CommandAfterInsertInPlace(self, c) == [c EXCEPT !.flags = <<self.power_shell_path>> \o c.flags]

\* PowerShellRunner.run, lines 54-55: the command object after
\* cmd = command.build(); cmd.insert(0, self.power_shell_path)
CommandAfterBuild(self, c) == c
\* PowerShellRunner.run, lines 54-55: the local list cmd
RunCmd(self, c) == <<self.power_shell_path>> \o build(c)

\* bytes.decode(sys.stdout.encoding, 'replace'), lines 70-71
Decode(bytes) ==
    [i \in 1..Len(bytes) |-> IF bytes[i] = BadByte THEN ReplacementChar ELSE bytes[i]]

\* Popen.kill() on Windows: TerminateProcess(handle, 1)
KillExitCode == 1

\* a Result whose success flag ignores the return code
ResultAlwaysOk(returncode, o, e) ==
    [kind |-> "Result", success |-> TRUE, code |-> returncode,
     out |-> Decode(o), err |-> Decode(e)]

\* PowerShellRunner.run, lines 70-76
MakeResult(returncode, o, e) ==
    [kind |-> "Result", success |-> (returncode = 0), code |-> returncode,
     out |-> Decode(o), err |-> Decode(e)]

(* json.loads and the Result Translator *)

IsRow(e) == Len(e) >= 5 /\ e[1] = "{" /\ e[Len(e)] = "}" /\ \E i \in 3..Len(e) : e[i] = ","
\* json.loads(text) returns (otherwise it raises JSONDecodeError)
JsonValid(text) ==
    \/ Len(text) = 1 /\ IsRow(text[1])
    \/ /\ Len(text) >= 2
       /\ text[1] = S("[") /\ text[Len(text)] = S("]")
       /\ \A i \in 2..(Len(text) - 1) : IsRow(text[i])
\* json.loads(text): a single object, or a list of objects
JsonLoads(text) ==
    IF Len(text) = 1 THEN [kind |-> "object", rows |-> text]
    ELSE [kind |-> "list", rows |-> SubSeq(text, 2, Len(text) - 1)]

RowComma(row) == CHOOSE i \in 3..Len(row) : row[i] = "," /\ \A j \in 3..Len(row) : row[j] = "," => i <= j
RowType(row) == row[2]
RowName(row) == SubSeq(row, 3, RowComma(row) - 1)
RowValue(row) == SubSeq(row, RowComma(row) + 1, Len(row) - 1)
\* dns_server_utils.transform_dns_server_result(zone, json_result): normalise to a
\* list, one Record per row of a known record type, rows of other types skipped
transform_dns_server_result(zone, json_result) ==
    LET known == SelectSeq(json_result.rows, LAMBDA row : RowType(row) \in RecordTypes)
    IN [i \in 1..Len(known) |->
           [zone |-> zone, name |-> RowName(known[i]), type |-> RowType(known[i]),
            value |-> RowValue(known[i])]]

----------------------------------------------------------------------------
(* Inputs *)

OptPaths == {None, CustomPath}
OptLoggers == {None, GivenLogger}      \* logger_service of PowerShellRunner
FacadeLoggers == {None}                \* logger_service of DnsServerModule
OptServers == {None} \cup Servers
OptNames == {None} \cup Names
OptTtls == {None} \cup Ttls
OptTypes == {"None"} \cup RecordTypes

GenCmdlets == {S("Get-DnsServerZone")}
GenFlags == {S("Force"), S("Verbose")}
GenArgs == {<<S("ZoneName"), S("myzone.com")>>, <<S("Name"), S("www")>>,
            <<S("RRType"), S("A")>>}
SeqsUpTo(set, n) == UNION {[1..k -> set] : k \in 0..n}
FlagLists == SeqsUpTo(GenFlags, MaxFlags)
\* keyword arguments: distinct keys, in the order the caller wrote them
ArgDicts == {d \in SeqsUpTo(GenArgs, MaxArgs) :
                \A i, j \in 1..Len(d) : i # j => d[i][1] # d[j][1]}

----------------------------------------------------------------------------
Init ==
    /\ pc = "start"
    /\ runner = Null
    /\ dns = Null
    /\ ctor = Null
    /\ op = NoOp
    /\ command = Null
    /\ command0 = Null
    /\ cmd = NoList
    /\ built = NoList
    /\ proc = NoProc
    /\ timedOut = FALSE
    /\ captured = NoCaptured
    /\ result = Null
    /\ errLog = NoList
    /\ ret = Null
    /\ exc = "none"
    /\ store \in InitStores
    /\ added = {}

callVars == <<op, command, command0, cmd, built, proc, timedOut, captured, result,
              errLog, ret, exc>>

(* Construction *)

\* the caller constructs a PowerShellRunner of its own
NewPowerShellRunner(power_shell_path, logger_service) ==
    /\ pc = "start"
    /\ runner = Null
    /\ runner' = PowerShellRunnerInit(power_shell_path, logger_service)
    /\ UNCHANGED <<pc, dns, ctor, callVars, store, added>>

\* DnsServerModule(runner, logger_service, server), runner being the caller's
\* PowerShellRunner if it made one and None otherwise.  The host is Windows:
\* the assertion of line 24 holds and is no branch of the model.
NewDnsServerModule(ls, srv) ==
    /\ pc = "start"
    /\ ctor' = [kind |-> "call", runner |-> runner, logger_service |-> ls,
                server |-> srv]
    /\ IF runner = Null /\ ~KeywordsBind(PowerShellRunnerParams, DefaultRunnerKeywords)
       THEN /\ exc' = "TypeError"
            /\ pc' = "ctor_raised"
            /\ UNCHANGED <<dns, runner>>
       ELSE /\ dns' = DnsServerModuleInit(ls, srv)
            /\ runner' = IF runner = Null THEN PowerShellRunnerInit(None, None) ELSE runner
            /\ pc' = "idle"
            /\ UNCHANGED exc
    /\ UNCHANGED op
    /\ UNCHANGED <<command, command0, cmd, built, proc, timedOut, captured, result,
                   errLog, ret, store, added>>

(* The facade's operations, up to the call of self.run(command) *)

Enter(call, c) ==
    /\ pc = "idle"
    /\ op' = call
    /\ IF TtlFaults(call.fn, call.ttl)
       THEN /\ exc' = "ValueError"
            /\ pc' = "raised"
            /\ UNCHANGED <<command, command0>>
       ELSE /\ command' = c
            /\ command0' = c
            /\ pc' = "called"
            /\ UNCHANGED exc
    /\ UNCHANGED <<runner, dns, ctor, added, cmd, built, proc, timedOut, captured, result, errLog,
                   ret, store>>

get_dns_records(zone, name, record_type) ==
    /\ pc = "idle"
    /\ Enter(Call("get_dns_records", zone, name, None, None, record_type),
             GetDnsRecordsCommand(dns, zone, name, record_type))

add_a_record(zone, name, ip, ttl) ==
    /\ pc = "idle"
    /\ Enter(Call("add_a_record", zone, name, ip, ttl, "None"),
             AddARecordCommand(dns, zone, name, ip, ttl))

remove_a_record(zone, name) ==
    /\ pc = "idle"
    /\ Enter(Call("remove_a_record", zone, name, None, None, "None"),
             RemoveRecordCommand(dns, zone, name, S("A")))

add_cname_record(zone, alias_name, server_name, ttl) ==
    /\ pc = "idle"
    /\ Enter(Call("add_cname_record", zone, alias_name, server_name, ttl, "None"),
             AddCnameRecordCommand(dns, zone, alias_name, server_name, ttl))

remove_cname_record(zone, alias_name) ==
    /\ pc = "idle"
    /\ Enter(Call("remove_cname_record", zone, alias_name, None, None, "None"),
             RemoveRecordCommand(dns, zone, alias_name, S("CNAME")))

add_txt_record(zone, name, content, ttl) ==
    /\ pc = "idle"
    /\ Enter(Call("add_txt_record", zone, name, content, ttl, "None"),
             AddTxtRecordCommand(dns, zone, name, content, ttl))

remove_txt_record(zone, name, record_data) ==
    /\ pc = "idle"
    /\ Enter(Call("remove_txt_record", zone, name, record_data, None, "None"),
             RemoveTxtRecordCommand(dns, zone, name, record_data))

is_dns_server_module_installed ==
    /\ pc = "idle"
    /\ Enter(Call("is_dns_server_module_installed", None, None, None, None, "None"),
             ModuleInstalledCommand)

\* the caller hands DnsServerModule.run a PowerShellCommand of its own
run(cmdlet, flags, to_json_convert, args) ==
    /\ pc = "idle"
    /\ Enter(Call("run", None, None, None, None, "None"),
             PowerShellCommand(cmdlet, flags, to_json_convert, args))

(* PowerShellRunner.run *)

\* lines 52-57: build the command line, prepend the interpreter, log it
RunnerStart ==
    /\ pc = "called"
    /\ built' = build(command)
    /\ cmd' = RunCmd(runner, command)
    /\ command' = CommandAfterBuild(runner, command)
    /\ IF runner.logger = None
       THEN exc' = "AttributeError" /\ pc' = "raised"      \* None.debug(...)
       ELSE UNCHANGED exc /\ pc' = "logged"
    /\ UNCHANGED <<runner, dns, ctor, added, op, command0, proc, timedOut, captured, result, errLog,
                   ret, store>>

\* line 59: subprocess.Popen starts the process, or raises OSError (outside the try)
Popen ==
    /\ pc = "logged"
    /\ \E launched \in BOOLEAN :
         IF launched
         THEN /\ proc' = [NoProc EXCEPT !.state = "running"]
              /\ pc' = "spawned"
              /\ UNCHANGED exc
         ELSE /\ proc' = [NoProc EXCEPT !.state = "launch_failed"]
              /\ pc' = "raised"
              /\ exc' = "OSError"
    /\ UNCHANGED <<runner, dns, ctor, added, op, command, command0, cmd, built, timedOut, captured,
                   result, errLog, ret, store>>

\* the process writes to its error stream while it runs
ProcWrite ==
    /\ proc.state = "running"
    /\ proc.err = << >>
    /\ proc' = [proc EXCEPT !.err = <<S("VERBOSE")>>]
    /\ UNCHANGED <<pc, runner, dns, ctor, added, op, command, command0, cmd, built, timedOut,
                   captured, result, errLog, ret, exc, store>>

\* the process finishes by itself: the tool has acted on the command line
ProcExit ==
    /\ proc.state = "running"
    /\ \E o \in ToolOutcomes(Tail(cmd), store) :
         /\ proc' = [state |-> "exited", returncode |-> o.code,
                     out |-> proc.out \o o.out, err |-> proc.err \o o.err,
                     fault |-> o.fault, killed |-> FALSE]
         /\ store' = o.store
    /\ UNCHANGED <<pc, runner, dns, ctor, added, op, command, command0, cmd, built, timedOut,
                   captured, result, errLog, ret, exc>>

\* line 61: proc.communicate(timeout=60) returns once the process has finished
Communicate ==
    /\ pc = "spawned"
    /\ proc.state = "exited"
    /\ captured' = [out |-> proc.out, err |-> proc.err]
    /\ pc' = "collected"
    /\ UNCHANGED <<runner, dns, ctor, added, op, command, command0, cmd, built, proc, timedOut,
                   result, errLog, ret, exc, store>>

\* lines 61-62: the 60 seconds pass with the process still running
Timeout ==
    /\ pc = "spawned"
    /\ proc.state = "running"
    /\ timedOut' = TRUE
    /\ pc' = "except"
    /\ UNCHANGED <<runner, dns, ctor, added, op, command, command0, cmd, built, proc, captured,
                   result, errLog, ret, exc, store>>

\* line 63: proc.kill() terminates the process if it is still running
Kill ==
    /\ pc = "except"
    /\ proc' = IF proc.state = "running"
               THEN [proc EXCEPT !.state = "exited", !.returncode = KillExitCode,
                                 !.killed = TRUE]
               ELSE proc
    /\ pc' = "killed"
    /\ UNCHANGED <<runner, dns, ctor, added, op, command, command0, cmd, built, timedOut, captured,
                   result, errLog, ret, exc, store>>

\* line 64: out, err = proc.communicate()
CommunicateAfterKill ==
    /\ pc = "killed"
    /\ captured' = [out |-> proc.out, err |-> proc.err]
    /\ pc' = "collected"
    /\ UNCHANGED <<runner, dns, ctor, added, op, command, command0, cmd, built, proc, timedOut,
                   result, errLog, ret, exc, store>>

\* lines 68-76: decode, log, Result
RunnerFinish ==
    /\ pc = "collected"
    /\ result' = MakeResult(proc.returncode, captured.out, captured.err)
    /\ pc' = "result"
    /\ UNCHANGED <<runner, dns, ctor, added, op, command, command0, cmd, built, proc, timedOut,
                   captured, errLog, ret, exc, store>>

(* DnsServerModule.run and the rest of each operation *)

\* lines 203-206
FacadeRun ==
    /\ pc = "result"
    /\ errLog' = IF ~result.success THEN build(command) ELSE errLog
    /\ pc' = "after_run"
    /\ UNCHANGED <<runner, dns, ctor, added, op, command, command0, cmd, built, proc, timedOut,
                   captured, result, ret, exc, store>>

Return(value, nowAdded) ==
    /\ ret' = value
    /\ added' = nowAdded
    /\ pc' = "returned"
    /\ UNCHANGED <<runner, dns, ctor, op, command, command0, cmd, built, proc, timedOut,
                   captured, result, errLog, exc, store>>

Raise(e) ==
    /\ exc' = e
    /\ pc' = "raised"
    /\ UNCHANGED <<runner, dns, ctor, added, op, command, command0, cmd, built, proc, timedOut,
                   captured, result, errLog, ret, store>>

\* get_dns_records, lines 53-57
GetDnsRecordsReturn ==
    /\ pc = "after_run"
    /\ op.fn = "get_dns_records"
    /\ IF result.success
       THEN IF JsonValid(result.out)
            THEN Return([kind |-> "list",
                         val |-> transform_dns_server_result(op.zone, JsonLoads(result.out))],
                        added)
            ELSE Raise("JSONDecodeError")
       ELSE Return([kind |-> "list", val |-> << >>], added)

WriteOps == {"add_a_record", "remove_a_record", "add_cname_record",
             "remove_cname_record", "add_txt_record", "remove_txt_record"}

\* the write operations: return result.success
WriteReturn ==
    /\ pc = "after_run"
    /\ op.fn \in WriteOps
    /\ Return([kind |-> "bool", val |-> result.success],
              IF ~result.success THEN added
              ELSE IF op.fn = "add_a_record"
                   THEN added \cup IdsOf(op.zone, op.name, "A", op.value)
                   ELSE IF op.fn = "remove_a_record"
                        THEN added \ IdsOf(op.zone, op.name, "A", None)
                        ELSE added)

\* is_dns_server_module_installed, line 198
ModuleInstalledReturn ==
    /\ pc = "after_run"
    /\ op.fn = "is_dns_server_module_installed"
    /\ Return([kind |-> "bool", val |-> (result.success /\ Len(result.out) > 0)], added)

\* DnsServerModule.run called by the caller: line 206
RunReturn ==
    /\ pc = "after_run"
    /\ op.fn = "run"
    /\ Return([kind |-> "Result", val |-> result], added)

\* the call is over (returned or raised); the caller goes on to its next call
NextCall ==
    /\ pc \in {"returned", "raised"}
    /\ pc' = "idle"
    /\ op' = NoOp
    /\ command' = Null
    /\ command0' = Null
    /\ cmd' = NoList
    /\ built' = NoList
    /\ proc' = NoProc
    /\ timedOut' = FALSE
    /\ captured' = NoCaptured
    /\ result' = Null
    /\ errLog' = NoList
    /\ ret' = Null
    /\ exc' = "none"
    /\ UNCHANGED <<runner, dns, ctor, store, added>>

Next ==
    \/ \E p \in OptPaths, l \in OptLoggers : NewPowerShellRunner(p, l)
    \/ \E l \in FacadeLoggers, s \in OptServers : NewDnsServerModule(l, s)
    \/ \E z \in Zones, n \in OptNames, t \in OptTypes : get_dns_records(z, n, t)
    \/ \E z \in Zones, n \in Names, ip \in Ips, t \in OptTtls : add_a_record(z, n, ip, t)
    \/ \E z \in Zones, n \in Names : remove_a_record(z, n)
    \/ \E z \in Zones, n \in Names, h \in Hosts, t \in OptTtls : add_cname_record(z, n, h, t)
    \/ \E z \in Zones, n \in Names : remove_cname_record(z, n)
    \/ \E z \in Zones, n \in Names, c \in Texts, t \in Ttls : add_txt_record(z, n, c, t)
    \/ \E z \in Zones, n \in Names, d \in {None} \cup Texts : remove_txt_record(z, n, d)
    \/ is_dns_server_module_installed
    \/ \E c \in GenCmdlets, f \in FlagLists, j \in BOOLEAN, a \in ArgDicts : run(c, f, j, a)
    \/ RunnerStart
    \/ Popen
    \/ ProcWrite
    \/ ProcExit
    \/ Communicate
    \/ Timeout
    \/ Kill
    \/ CommunicateAfterKill
    \/ RunnerFinish
    \/ FacadeRun
    \/ GetDnsRecordsReturn
    \/ WriteReturn
    \/ ModuleInstalledReturn
    \/ RunReturn
    \/ NextCall

Spec == Init /\ [][Next]_vars

TypeOK ==
    /\ pc \in {"start", "ctor_raised", "idle", "called", "logged", "spawned", "except",
               "killed", "collected", "result", "after_run", "returned", "raised"}
    /\ exc \in {"none", "TypeError", "ValueError", "AttributeError", "OSError",
                "JSONDecodeError"}
    /\ store \subseteq RecIds
    /\ timedOut \in BOOLEAN

----------------------------------------------------------------------------
(* Claims *)

InCall(fn) == op.fn = fn /\ command # Null       \* fn has constructed its command
Over == pc \in {"returned", "raised"}            \* the call has returned or raised
HasResult == result.kind = "Result"
RecordOfAdd == IdsOf(op.zone, op.name, "A", op.value)

\* C1: for every zone, name and IPv4 address, the command add_a_record hands the
\* runner is Add-DnsServerResourceRecordA with the single flag AllowUpdateAny and
\* with the named arguments ZoneName, Name and IPv4Address carrying the zone, the
\* record name and the address; add_a_record returns the runner's success flag.
C1_AddARecordCommand ==
    InCall("add_a_record") =>
        /\ command.cmdlet = S("Add-DnsServerResourceRecordA")
        /\ command.flags = << S("AllowUpdateAny") >>
        /\ HasKey(command.args, S("ZoneName")) /\ Get(command.args, S("ZoneName")) = op.zone
        /\ HasKey(command.args, S("Name")) /\ Get(command.args, S("Name")) = op.name
        /\ HasKey(command.args, S("IPv4Address"))
        /\ Get(command.args, S("IPv4Address")) = op.value
        /\ pc = "returned" => (ret.kind = "bool" /\ ret.val = result.success)

\* C2: the command of every write operation has the target server as a named
\* argument exactly when the facade was constructed with a server identifier.
C2_ServerArgumentIffConfigured ==
    (op.fn \in WriteOps /\ command # Null) =>
        /\ HasKey(command.args, S("Computer")) <=> Truthy(dns.server)
        /\ HasKey(command.args, S("Computer")) => Get(command.args, S("Computer")) = dns.server

\* the external call behind the operation failed: the process could not be
\* launched, the wait timed out, or the process ended with a non-zero exit code
ExternalCallFailed ==
    \/ proc.state = "launch_failed"
    \/ timedOut
    \/ proc.state = "exited" /\ proc.returncode # 0

\* C3: whenever the external call behind get_dns_records fails, get_dns_records
\* returns an empty list; it never returns null and never raises.
C3_GetSoftFails ==
    (op.fn = "get_dns_records" /\ Over /\ ExternalCallFailed) =>
        (pc = "returned" /\ ret.kind = "list" /\ ret.val = << >>)

\* the tool reported zero rows: no output at all, or an empty JSON array
ZeroRows(text) == text = << >> \/ text = << S("["), S("]") >>

\* C4: when the runner reports success, get_dns_records returns the list the
\* Result Translator decodes from stdout, an empty list when the tool reported
\* zero rows (not an error).
C4_GetReturnsDecodedList ==
    (op.fn = "get_dns_records" /\ Over /\ HasResult /\ result.success) =>
        /\ pc = "returned"
        /\ ret.kind = "list"
        /\ ZeroRows(result.out) => ret.val = << >>
        /\ JsonValid(result.out) =>
               ret.val = transform_dns_server_result(op.zone, JsonLoads(result.out))

\* C5: when the child process cannot be launched, PowerShellRunner.run returns a
\* Result with success false and an error text; no exception reaches the caller.
C5_LaunchFailureIsAResult ==
    proc.state = "launch_failed" =>
        /\ exc = "none"
        /\ HasResult
        /\ ~result.success
        /\ result.err # << >>

\* every Result has success exactly when the exit code is 0 and carries the exit
\* code and the decoded output of both streams
ResultPopulated ==
    HasResult =>
        /\ result.success <=> (result.code = 0)
        /\ result.code \in Int
        /\ result.code = proc.returncode
        /\ result.out = Decode(proc.out)
        /\ result.err = Decode(proc.err)

\* C6 as stated: every Result returned by PowerShellRunner.run has success exactly
\* when the exit code is 0, with exit code and both streams populated; after a
\* timeout the process has been terminated and the Result is a failure.
C6_TimeoutIsFailure ==
    /\ ResultPopulated
    /\ (HasResult /\ timedOut) => (proc.state = "exited" /\ ~result.success)

\* C6 amended: every Result returned by PowerShellRunner.run has success exactly
\* when the exit code is 0, with exit code and both streams populated; after a
\* timeout kill() has been issued before the output was collected, and the Result
\* is a failure whenever kill() found the process still running (a process that
\* ended by itself between the timeout and kill() keeps its own exit code).
C6_TimeoutKilledIsFailure ==
    /\ ResultPopulated
    /\ (HasResult /\ timedOut) => proc.state = "exited"
    /\ (HasResult /\ timedOut /\ proc.killed) => ~result.success
    /\ (timedOut /\ pc = "collected") => proc.state = "exited"

\* a timed-out, killed process with partial output on its error stream
C6_Witness ==
    HasResult /\ timedOut /\ proc.killed /\ result.err # << >> /\ ~result.success

\* C7: build() returns the operation identifier, then one "-flag" token per flag
\* in supplied order, then one "-name value" entry per named argument in supplied
\* order, then the pipe token and ConvertTo-Json exactly when the transform flag
\* is set.
C7_BuildTokens ==
    built # NoList =>
        LET c == command0
            nf == Len(c.flags)
            na == Len(c.args)
        IN /\ Len(built) = 1 + nf + na + (IF c.to_json_convert THEN 2 ELSE 0)
           /\ built[1] = c.cmdlet
           /\ \A i \in 1..nf : built[1 + i] = <<"-">> \o c.flags[i]
           /\ \A i \in 1..na :
                  built[1 + nf + i] = <<"-">> \o c.args[i][1] \o <<" ">> \o c.args[i][2]
           /\ c.to_json_convert =>
                  /\ built[Len(built) - 1] = S("|")
                  /\ built[Len(built)] = S("ConvertTo-Json")

\* a built command with two flags, two named arguments and the transform
C7_Witness ==
    /\ built # NoList
    /\ Len(command0.flags) = 2 /\ command0.flags[1] # command0.flags[2]
    /\ Len(command0.args) = 2
    /\ command0.to_json_convert
    /\ Len(built) = 7

\* the DNS tool ran the command line it was given to the end: the process was
\* launched, was not killed, and the DNS server did its part
ToolUp == proc.state = "exited" /\ ~timedOut /\ proc.fault # "server"
AddedHere == added \cap IdsOf(op.zone, op.name, "A", None)

C9_DefaultConstruction ==
    (ctor.kind = "call" /\ ctor.runner = Null /\ ctor.logger_service = None) =>
        /\ pc # "ctor_raised"
        /\ dns.kind = "DnsServerModule"
        /\ runner.kind = "PowerShellRunner"
        /\ runner.power_shell_path = DEFAULT_POWER_SHELL_EXE_PATH
        /\ runner.logger # None
        /\ exc \notin {"TypeError", "AttributeError"}

====
